---- MODULE Spec2Model ----
(***************************************************************************)
(* KaziConnect: the page-context synchronisation engine of src/js/main.js  *)
(* over the IndexedDB store of src/js/db.js and the HTTP endpoints of      *)
(* server/server.js.                                                       *)
(*                                                                         *)
(* Every `await` of an async function is a point where the event loop may  *)
(* run another handler, so each async function is a process whose pc names *)
(* the await it is suspended at; the code between two awaits is one step.  *)
(***************************************************************************)
EXTENDS Naturals, Integers, Sequences, FiniteSets, Bags

\* ---------------------------------------------------------------- bounds
\* applications ever enqueued (ids 1..MaxApps)
MaxApps == 2
\* job submissions ever enqueued (ids 1..MaxJobs)
MaxJobs == 2
\* drain chains ever started per queue (one per call of trySync*(0))
MaxChains == 2
\* versions of a resource's body at the origin (1..MaxVersion)
MaxVersion == 2
\* fetch events the service worker is handling at one time
MaxFetches == 2
\* applications enqueued in the two-queue specification (SpecBoth)
MaxStalled == 1

\* ------------------------------------------------------- program constants
\* main.js:328 and :372   if (retryCount < 3)
MaxRetryCount == 3
\* main.js:329 and :373   Math.pow(2, retryCount) * 1000
BackoffBaseMs == 1000

APPS == "applications"
JOBS == "jobSubmissions"
Queues == {APPS, JOBS}

\* What one fetch() of a POST can end in, as the client sees it.
R201 == "201"
R400 == "400"
R500 == "500"
NETERR == "neterr"

VARIABLES
    online,         \* navigator.onLine
    battery,        \* "low" when (await navigator.getBattery()).level < 0.15, else "ok"
    saveData,       \* navigator.connection ? navigator.connection.saveData : false
    batteryAware,   \* settings store, key 'batteryAware'
    store,          \* store[q]: the records of the object store of queue q
    nextId,         \* nextId[q]: the store's autoIncrement key generator
    accepted,       \* accepted[q][id]: rows the server inserted for the record
    starting,       \* starting[q]: calls trySync*(0) awaiting their getPending*()
    drains,         \* bag of the other calls of trySync*() suspended at an await
    timers,         \* bag of the setTimeout retries not yet fired
    nChains,        \* nChains[q]: calls trySync*(0) that found pending items
    jobForm,        \* the post-job-form onsubmit handler
    lastJob,        \* history: how the last post-job-form submit ended
    origin,         \* origin[url]: version of the body the server holds for url
    cache,          \* cache[url]: the entry of the service worker's cache, or NoEntry
    fetches,        \* bag of the fetch events the service worker is handling
    puts,           \* bag of the cache.put() calls not yet completed
    lastReply,      \* history: what the last fetch event was answered with
    swState,        \* the service worker's lifecycle state
    generations,    \* names of the caches that exist (caches.keys())
    doomed,         \* the keys the 'activate' handler found stale and deletes
    idb,            \* the IndexedDB database KaziConnectDB: version and object stores
    displayed,      \* state.pendingCount, the count the sync banner shows
    banners,        \* calls of updatePendingSyncBanner() awaiting their read
    uncaught        \* history: a drain's promise was rejected (an error left it)

\* the page context (main.js, db.js) and the worker context (sw.js)
pageVars == <<online, battery, saveData, batteryAware, store, nextId, accepted,
              starting, drains, timers, nChains, jobForm, lastJob, idb,
              displayed, banners, uncaught>>
lifeVars == <<swState, generations, doomed>>
swVars == <<origin, cache, fetches, puts, lastReply, lifeVars>>
vars == <<pageVars, swVars>>

MaxId(q) == IF q = APPS THEN MaxApps ELSE MaxJobs

\* ------------------------------------------------------------ db.js store
RECURSIVE SortedIds(_)
SortedIds(S) ==
    IF S = {} THEN <<>>
    ELSE LET m == CHOOSE x \in S : \A y \in S : x <= y
         IN  <<m>> \o SortedIds(S \ {m})

\* store.getAll(): every record, in ascending key order
getAll(recs) ==
    LET ids == SortedIds({r.id : r \in recs})
    IN  [i \in 1..Len(ids) |-> CHOOSE r \in recs : r.id = ids[i]]

\* The slip of reading the store newest first.
getPendingApplications_NewestFirst(recs) ==
    LET all == SelectSeq(getAll(recs), LAMBDA r : ~r.synced)
    IN  [i \in 1..Len(all) |-> all[Len(all) + 1 - i]]

\* db.js:86  request.result.filter(app => !app.synced)
getPendingApplications(recs) == SelectSeq(getAll(recs), LAMBDA r : ~r.synced)

\* The slip of a fixed key where the generated one was meant.
queueApplication_SameKey(recs, id, valid) ==
    recs \cup {[id |-> 1, valid |-> valid, synced |-> FALSE]}

\* db.js:75  store.add({...application, timestamp, synced: false}) under autoIncrement
queueApplication(recs, id, valid) ==
    recs \cup {[id |-> id, valid |-> valid, synced |-> FALSE]}

\* The slip of clearing the store where one key was meant.
markAsSynced_Clear(recs, id) == {}

\* db.js:95  store.delete(id)
markAsSynced(recs, id) == {r \in recs : r.id # id}

\* The job-submission store is used by main.js but db.js does not define it.
getPendingJobSubmissions(recs) == SelectSeq(getAll(recs), LAMBDA r : ~r.synced)

queueJobSubmission(recs, id, valid, synced) ==
    recs \cup {[id |-> id, valid |-> valid, synced |-> synced]}

markJobSubmissionSynced(recs, id) ==
    {IF r.id = id THEN [r EXCEPT !.synced = TRUE] ELSE r : r \in recs}

\* KaziDB.getAllJobSubmissions, the listing renderMyJobs shows (main.js:450)
getAllJobSubmissions(recs) == getAll(recs)

getPending(q, recs) ==
    IF q = APPS THEN getPendingApplications(recs) ELSE getPendingJobSubmissions(recs)

\* The slip of deleting from both queues.
settle_Delete(q, recs, id) == markAsSynced(recs, id)

settle(q, recs, id) ==
    IF q = APPS THEN markAsSynced(recs, id) ELSE markJobSubmissionSynced(recs, id)

\* ---------------------------------------------------------- server.js POST
\* server.js:98-136: 400 when a required field is missing, else 201, or 500
\* when the insert throws; fetch() rejects when the request cannot be made.
Responses(valid) ==
    IF ~online THEN {NETERR}
    ELSE IF valid THEN {R201, R500, NETERR}
    ELSE {R400, NETERR}

\* spec section 7: RemoteRejected is a 4xx, RemoteUnavailable a 5xx or a
\* transport failure. The code (main.js:319-334) does not tell them apart.
FailureClass(r) == IF r = R400 THEN "RemoteRejected" ELSE "RemoteUnavailable"

Inc(n) == IF n < 2 THEN n + 1 ELSE n

serverAccept(q, id) == [accepted EXCEPT ![q][id] = Inc(@)]

\* ------------------------------------------------------------- retry chain
RECURSIVE Pow2(_)
Pow2(n) == IF n = 0 THEN 1 ELSE 2 * Pow2(n - 1)

\* The slip of a linear backoff: 1 s, 2 s, 3 s.
RetryDelay_Linear(retryCount) == (retryCount + 1) * BackoffBaseMs

\* main.js:329  const delay = Math.pow(2, retryCount) * 1000
RetryDelay(retryCount) == Pow2(retryCount) * BackoffBaseMs

\* The slip of <= for <: one retry more.
ShouldRetry_OffByOne(retryCount) == retryCount <= MaxRetryCount

\* main.js:328  if (retryCount < 3)
ShouldRetry(retryCount) == retryCount < MaxRetryCount

\* A call trySync*(rc) suspended at await db.getPending*(). `hist` is
\* history: the delays of the retries scheduled so far in the call's chain.
Drain(q, rc, hist) ==
    [q |-> q, rc |-> rc, hist |-> hist, pend |-> <<>>, pc |-> "read"]

\* The slip of leaving out the connectivity check.
trySync_NoOnlineCheck(q, rc, hist) == {Drain(q, rc, hist)}

\* main.js:289 / :341  if (!navigator.onLine) return;  then await db.getPending*()
trySync(q, rc, hist) == IF online THEN {Drain(q, rc, hist)} ELSE {}

\* Calls and timers are bags: two calls in the same state are two calls.
Plus(B, S) == B (+) SetToBag(S)
\* The slip of dropping every pending call or timer where one was meant.
Minus_All(B, e) == EmptyBag

Minus(B, e) == B (-) SetToBag({e})

\* The slip of a gate that is always closed.
Deferred_Always == TRUE

\* main.js:294-297  isBatteryLow || isDataSaver
Deferred == battery = "low" \/ saveData

\* main.js:222  showToast('Error submitting job. Please try again.')
TryAgain == "Error submitting job. Please try again."

\* History of one post-job-form submit: the answer to its POST ("offline" when
\* none was made), whether the job was put in the local store, whether the
\* server accepted it, and the toast shown (main.js:211, :214, :222).
JobEnded(resp, stored, acc, toast) ==
    [resp |-> resp, stored |-> stored, accepted |-> acc, toast |-> toast]

\* --------------------------------------------------- sw.js: the cache layer
\* A data-API resource, a static asset of the install manifest (sw.js:2-10)
\* and a static asset that is not in the manifest.
API_URL == "/api/jobs"
INDEX_URL == "/index.html"
ICON_URL == "/favicon.ico"
Urls == {API_URL, INDEX_URL, ICON_URL}
STATIC_ASSETS == {INDEX_URL}
Methods == {"GET", "POST"}

\* The slip of a prefix that no request matches.
IsApi_Never(url) == FALSE

\* sw.js:45  url.pathname.startsWith('/api/')
IsApi(url) == url = API_URL

\* A response: its status and the version of the body it carries.
Response(status, body) == [status |-> status, body |-> body]
\* caches.match() resolving to undefined
NoEntry == Response("undefined", 0)
\* fetch() rejecting
NetFail == Response("neterr", 0)

\* What fetch(event.request) can end in: the origin's current body with 200,
\* an error response, or a rejection; only a rejection while offline.
NetOutcomes(url) ==
    IF ~online THEN {NetFail}
    ELSE {Response("200", origin[url]), Response("500", 0), NetFail}

\* A fetch event being handled: `cached` is what caches.match() resolved to and
\* `replied` whether the promise given to respondWith() has resolved.
FetchEvent(url, method, pc) ==
    [url |-> url, method |-> method, pc |-> pc, cached |-> NoEntry,
     replied |-> FALSE]

\* History: the answer the page got for a request, and where it came from:
\* "network", "cache", "fail" (respondWith() got undefined or a rejection) or
\* "passthrough" (the worker did not call respondWith()).
Reply(url, method, from, resp) ==
    [url |-> url, method |-> method, from |-> from, resp |-> resp]

\* The slip of answering from the network only.
AnswerNow_Never(cached) == FALSE

\* sw.js:69  return cachedResponse || fetchPromise: a cached copy answers the
\* request without waiting for fetchPromise.
AnswerNow(cached) == cached # NoEntry

\* The slip of caching whatever the fetch ended in.
Refresh_Always(url, r) == {[url |-> url, resp |-> r]}

\* sw.js:62-65  if (networkResponse && networkResponse.status === 200) cache.put(...)
Refresh(url, r) ==
    IF r.status = "200" THEN {[url |-> url, resp |-> r]} ELSE {}

\* sw.js:61-67  what fetchPromise resolves to: the network's response, or
\* cachedResponse when fetch() rejected.
FromNetwork(url, cached, r) ==
    IF r # NetFail THEN Reply(url, "GET", "network", r)
    ELSE Reply(url, "GET", IF cached = NoEntry THEN "fail" ELSE "cache", cached)

\* sw.js:1  the cache generation this version of the worker uses, and the
\* generation an earlier version left behind
CACHE_NAME == "kaziconnect-v2"
OLD_CACHE_NAME == "kaziconnect-v1"

\* The slip of handling every method.
Intercepted_All(method) == TRUE

\* sw.js:40  if (event.request.method !== 'GET') return;
Intercepted(method) == method = "GET"

\* The slip of a filter that keeps every cache.
Stale_None(keys) == {}

\* sw.js:31  keys.filter((key) => key !== CACHE_NAME)
Stale(keys) == keys \ {CACHE_NAME}

\* ------------------------------------------------- db.js: schema migration
\* db.js:2  const DB_VERSION = 2
DB_VERSION == 2

StoreNames == {"jobs", "applications", "settings"}

\* db.js:36-38  the default settings
DEFAULT_SETTINGS ==
    {[key |-> "syncFrequency", value |-> "normal"],
     [key |-> "batteryAware", value |-> "true"],
     [key |-> "dataSaver", value |-> "false"]}

\* A database: its stored version (0 when it does not exist yet), the object
\* stores it has and their records, whether a connection is open, and, as
\* history, the version the last open found.
Database(version, present, data) ==
    [version |-> version, present |-> present, data |-> data,
     open |-> FALSE, from |-> version]

NoData == [n \in StoreNames |-> {}]

\* db.createObjectStore(name, ...), followed by store.add() of `recs`
createObjectStore(db, name, recs) ==
    [db EXCEPT !.present = @ \cup {name}, !.data[name] = recs]

\* if (!db.objectStoreNames.contains(name)) createObjectStore(name)
createIfMissing(db, name, recs) ==
    IF name \in db.present THEN db ELSE createObjectStore(db, name, recs)

\* The slip of building the database afresh on every upgrade.
onupgradeneeded_Fresh(db, oldVersion) ==
    [db EXCEPT !.version = DB_VERSION, !.present = StoreNames,
               !.data = [NoData EXCEPT !["settings"] = DEFAULT_SETTINGS]]

\* db.js:17-41  request.onupgradeneeded
onupgradeneeded(db, oldVersion) ==
    LET v1 == IF oldVersion < 1
              THEN createIfMissing(createIfMissing(db, "jobs", {}),
                                   "applications", {})
              ELSE db
        v2 == IF oldVersion < 2
              THEN createIfMissing(v1, "settings", DEFAULT_SETTINGS)
              ELSE v1
    IN  [v2 EXCEPT !.version = DB_VERSION]

\* db.js:15  indexedDB.open(DB_NAME, DB_VERSION): the upgrade runs when the
\* stored version is lower.
openDatabase(db) ==
    IF db.version < DB_VERSION THEN onupgradeneeded(db, db.version) ELSE db

\* The database as each earlier version of init() left it, empty.
SchemaAt(version) ==
    IF version = 0 THEN Database(0, {}, NoData)
    ELSE IF version = 1 THEN Database(1, {"jobs", "applications"}, NoData)
    ELSE Database(2, StoreNames, [NoData EXCEPT !["settings"] = DEFAULT_SETTINGS])

CurrentSchema == [SchemaAt(DB_VERSION) EXCEPT !.open = TRUE]

\* Everything but the battery, the database and the worker's lifecycle and cache.
InitBase ==
    /\ displayed = 0
    /\ banners = 0
    /\ uncaught = FALSE
    /\ origin = [u \in Urls |-> 1]
    /\ fetches = EmptyBag
    /\ puts = EmptyBag
    /\ lastReply = Reply("none", "none", "none", NoEntry)
    /\ online \in BOOLEAN
    /\ saveData = FALSE
    /\ batteryAware = TRUE
    /\ store = [q \in Queues |-> {}]
    /\ nextId = [q \in Queues |-> 1]
    /\ accepted = [q \in Queues |-> [i \in 1..MaxId(q) |-> 0]]
    /\ starting = [q \in Queues |-> 0]
    /\ drains = EmptyBag
    /\ timers = EmptyBag
    /\ nChains = [q \in Queues |-> 0]
    /\ jobForm = [pc |-> "idle", valid |-> TRUE]
    /\ lastJob = JobEnded("none", FALSE, FALSE, "none")

\* The page has started (initApp, main.js:19-62) and the worker is active.
Init ==
    /\ InitBase
    /\ battery \in {"ok", "low"}
    /\ idb = CurrentSchema
    /\ swState = "activated"
    /\ generations = {CACHE_NAME}
    /\ doomed = {}
    /\ cache = [u \in Urls |-> IF u \in STATIC_ASSETS THEN Response("200", 1)
                                ELSE NoEntry]

\* ------------------------------------------------------------ environment
\* window 'offline' event (main.js:446): updateConnectionStatus only repaints.
OfflineEvent ==
    /\ online
    /\ online' = FALSE
    /\ UNCHANGED <<swVars, idb, displayed, banners, uncaught, battery, saveData, batteryAware, store, nextId, accepted,
                   starting, drains, timers, nChains, jobForm, lastJob>>

\* The battery level crosses 0.15.
BatteryChange ==
    /\ battery' = IF battery = "ok" THEN "low" ELSE "ok"
    /\ UNCHANGED <<swVars, idb, displayed, banners, uncaught, online, saveData, batteryAware, store, nextId, accepted,
                   starting, drains, timers, nChains, jobForm, lastJob>>

\* The user switches the platform's data saver.
ConnectionChange ==
    /\ saveData' = ~saveData
    /\ UNCHANGED <<swVars, idb, displayed, banners, uncaught, online, battery, batteryAware, store, nextId, accepted,
                   starting, drains, timers, nChains, jobForm, lastJob>>

\* db.js:114  setSetting('batteryAware', value)
setSetting ==
    /\ batteryAware' = ~batteryAware
    /\ UNCHANGED <<swVars, idb, displayed, banners, uncaught, online, battery, saveData, store, nextId, accepted,
                   starting, drains, timers, nChains, jobForm, lastJob>>

\* ---------------------------------------------------------------- triggers
\* Room for k more calls trySync*(0) of queue q within the bound.
Room(q, k) == nChains[q] + starting[q] + k <= MaxChains

\* k calls trySync*(0) of queue q: main.js:289 / :341 return when offline,
\* and otherwise go on to await db.getPending*().
Triggered(q, k) == [starting EXCEPT ![q] = IF online THEN @ + k ELSE @]

\* window 'online' event (main.js:441-445): updateConnectionStatus(), then
\* trySyncApplications(), trySyncJobSubmissions(). updateConnectionStatus
\* (main.js:231-258) calls both as well when there is no SyncManager or when
\* registration.sync.register() throws (`fallback`), and neither otherwise.
\* OnlineEventOn(Qs) is the handler's effect on the queues Qs.
OnlineEventOn(Qs) ==
    /\ ~online
    /\ online' = TRUE
    /\ \E fallback \in BOOLEAN :
         LET k == IF fallback THEN 2 ELSE 1 IN
         /\ \A q \in Qs : Room(q, k)
         /\ starting' = [q \in Queues |-> IF q \in Qs THEN starting[q] + k
                                          ELSE starting[q]]
    /\ UNCHANGED <<swVars, idb, displayed, banners, uncaught, battery, saveData, batteryAware, store, nextId, accepted,
                   drains, timers, nChains, jobForm, lastJob>>

OnlineEvent == OnlineEventOn(Queues)

\* main.js:396  sync-now-btn onclick: trySyncApplications()
SyncNowClick ==
    /\ Room(APPS, 1)
    /\ starting' = Triggered(APPS, 1)
    /\ UNCHANGED <<swVars, idb, displayed, banners, uncaught, online, battery, saveData, batteryAware, store, nextId,
                   accepted, drains, timers, nChains, jobForm, lastJob>>

\* main.js:400  job-sync-now-btn onclick: trySyncJobSubmissions()
JobSyncNowClick ==
    /\ Room(JOBS, 1)
    /\ starting' = Triggered(JOBS, 1)
    /\ UNCHANGED <<swVars, idb, displayed, banners, uncaught, online, battery, saveData, batteryAware, store, nextId,
                   accepted, drains, timers, nChains, jobForm, lastJob>>

\* main.js:331 / :375  the setTimeout callback: trySync*(retryCount + 1)
RetryTimerFire ==
    \E t \in BagToSet(timers) :
        /\ timers' = Minus(timers, t)
        /\ drains' = Plus(drains, trySync(t.q, t.rc, t.hist))
        /\ UNCHANGED <<swVars, idb, displayed, banners, uncaught, online, battery, saveData, batteryAware, store, nextId,
                       accepted, starting, nChains, jobForm, lastJob>>

\* ------------------------------------------------------------------- forms
\* job-application-form onsubmit (main.js:129-167): await queueApplication,
\* then updatePendingSyncBanner() and, when online, trySyncApplications().
ApplicationFormSubmit ==
    \E valid \in BOOLEAN :
        /\ nextId[APPS] <= MaxApps
        /\ online => Room(APPS, 1)
        /\ store' = [store EXCEPT ![APPS] = queueApplication(@, nextId[APPS], valid)]
        /\ nextId' = [nextId EXCEPT ![APPS] = @ + 1]
        /\ starting' = Triggered(APPS, 1)
        /\ banners' = banners + 1
        /\ UNCHANGED <<swVars, idb, displayed, uncaught, online, battery, saveData, batteryAware, accepted, drains,
                       timers, nChains, jobForm, lastJob>>

\* post-job-form onsubmit (main.js:179-215) up to its first await: online it
\* POSTs the job, offline it queues it.
PostJobFormSubmit ==
    \E valid \in BOOLEAN :
        /\ jobForm.pc = "idle"
        /\ nextId[JOBS] <= MaxJobs
        /\ IF online
           THEN /\ jobForm' = [pc |-> "fetch", valid |-> valid]
                /\ UNCHANGED <<store, nextId, lastJob>>
           ELSE /\ store' = [store EXCEPT
                                ![JOBS] = queueJobSubmission(@, nextId[JOBS], valid, FALSE)]
                /\ nextId' = [nextId EXCEPT ![JOBS] = @ + 1]
                /\ lastJob' = JobEnded("offline", TRUE, FALSE, "Job saved offline!")
                /\ UNCHANGED jobForm
        /\ UNCHANGED <<swVars, idb, displayed, banners, uncaught, online, battery, saveData, batteryAware, accepted, starting,
                       drains, timers, nChains>>

\* The slip of taking a 400 for a success.
Ok_Lenient(r) == r \in {R201, R400}

\* main.js:205  response.ok: the status is in the range 200-299
Ok(r) == r = R201

\* post-job-form onsubmit (main.js:205-226) after the fetch: a 2xx queues the
\* job with synced: true; anything else throws into the catch, which only shows
\* 'Error submitting job. Please try again.'
PostJobFormResponse ==
    \E r \in Responses(jobForm.valid) :
        /\ jobForm.pc = "fetch"
        /\ jobForm' = [pc |-> "idle", valid |-> TRUE]
        /\ IF Ok(r)
           THEN /\ store' = [store EXCEPT
                                ![JOBS] = queueJobSubmission(@, nextId[JOBS], jobForm.valid, TRUE)]
                /\ nextId' = [nextId EXCEPT ![JOBS] = @ + 1]
                /\ accepted' = serverAccept(JOBS, nextId[JOBS])
                /\ lastJob' = JobEnded(r, TRUE, TRUE, "Job submitted for review!")
           ELSE /\ lastJob' = JobEnded(r, FALSE, FALSE, TryAgain)
                /\ UNCHANGED <<store, nextId, accepted>>
        /\ UNCHANGED <<swVars, idb, displayed, banners, uncaught, online, battery, saveData, batteryAware, starting, drains,
                       timers, nChains>>

\* ------------------------------------------------------------------ drains
\* main.js:291-294 (applications) and :343-350 (job submissions), after
\* getPending*() resolved with `pending`: an empty list returns.
\* trySyncApplications goes on to await navigator.getBattery();
\* trySyncJobSubmissions has no gate and POSTs the first item at once.
\* (A platform without getBattery takes isBatteryLow = false with no await:
\* it behaves as battery = "ok" with DrainGate following DrainRead at once.)
AfterRead(d, pending) ==
    IF pending = <<>> THEN {}
    ELSE IF d.q = APPS THEN {[d EXCEPT !.pend = pending, !.pc = "gate"]}
    ELSE {[d EXCEPT !.pend = pending, !.pc = "fetch"]}

\* The getPending*() of a call trySync*(0) resolves; a call that found
\* pending items is a new chain.
DrainStart ==
    \E q \in Queues :
        /\ starting[q] > 0
        /\ starting' = [starting EXCEPT ![q] = @ - 1]
        /\ LET pending == getPending(q, store[q]) IN
           /\ drains' = Plus(drains, AfterRead(Drain(q, 0, <<>>), pending))
           /\ nChains' = IF pending = <<>> THEN nChains
                         ELSE [nChains EXCEPT ![q] = @ + 1]
        /\ UNCHANGED <<swVars, idb, displayed, banners, uncaught, online, battery, saveData, batteryAware, store, nextId,
                       accepted, timers, jobForm, lastJob>>

\* The getPending*() of a retry trySync*(retryCount + 1) resolves.
DrainRead ==
    \E d \in BagToSet(drains) :
        /\ d.pc = "read"
        /\ drains' = Plus(Minus(drains, d), AfterRead(d, getPending(d.q, store[d.q])))
        /\ UNCHANGED <<swVars, idb, displayed, banners, uncaught, online, battery, saveData, batteryAware, store, nextId,
                       accepted, starting, timers, nChains, jobForm, lastJob>>

\* main.js:294-303: getBattery() resolved; the drain is deferred, or the POST
\* of the first item is issued.
DrainGate ==
    \E d \in BagToSet(drains) :
        /\ d.pc = "gate"
        /\ drains' = IF Deferred THEN Minus(drains, d)
                     ELSE Plus(Minus(drains, d), {[d EXCEPT !.pc = "fetch"]})
        /\ UNCHANGED <<swVars, idb, displayed, banners, uncaught, online, battery, saveData, batteryAware, store, nextId,
                       accepted, starting, timers, nChains, jobForm, lastJob>>

\* The slip of a try block around the settle alone.
InTry_SettleOnly(pc) == pc = "settle"

\* main.js:306-334 / :350-378  the try block of the loop body holds the fetch,
\* the response.ok check with its throw, and the settle.
InTry(pc) == pc \in {"fetch", "settle"}

\* The slip of updating the banner only after a pass without a failure.
notifyObservers_OnSuccess(q, n, ok) == IF q = APPS /\ ok THEN n + 1 ELSE n

\* main.js:337  updatePendingSyncBanner(), not awaited: one more banner update
\* awaits its read. (main.js:381 updateJobSyncBanner() writes the job banner,
\* which is not part of the state here.)
notifyObservers(q, n, ok) == IF q = APPS THEN n + 1 ELSE n

\* The slip of a catch block that only logs.
Retry_Never(d, r) == {}

\* main.js:326-333 / :370-377: the catch block of a pass at retryCount rc.
Retry(d, r) ==
    IF ShouldRetry(d.rc)
    THEN {[q |-> d.q, rc |-> d.rc + 1,
           delay |-> RetryDelay(d.rc),
           hist |-> Append(d.hist, RetryDelay(d.rc)),
           cause |-> FailureClass(r)]}
    ELSE {}

\* main.js:307-334 / :350-378: the POST of the head item ends. A 2xx goes on to
\* await the settle; a non-2xx throws and a rejected fetch throws, and the
\* catch schedules the retry (if any) and breaks out of the loop, to the banner
\* update that ends the pass. An exception thrown outside the try block would
\* end the call and reject its promise, which no caller handles.
DrainResponse ==
    \E d \in BagToSet(drains) :
        /\ d.pc = "fetch"
        /\ \E r \in Responses(Head(d.pend).valid) :
             IF r = R201
             THEN /\ accepted' = serverAccept(d.q, Head(d.pend).id)
                  /\ drains' = Plus(Minus(drains, d), {[d EXCEPT !.pc = "settle"]})
                  /\ UNCHANGED <<timers, banners, uncaught>>
             ELSE /\ drains' = Minus(drains, d)
                  /\ IF InTry(d.pc)
                     THEN /\ timers' = Plus(timers, Retry(d, r))
                          /\ banners' = notifyObservers(d.q, banners, FALSE)
                          /\ UNCHANGED uncaught
                     ELSE /\ uncaught' = TRUE
                          /\ UNCHANGED <<timers, banners>>
                  /\ UNCHANGED accepted
        /\ UNCHANGED <<swVars, idb, displayed, online, battery, saveData, batteryAware, store, nextId,
                       starting, nChains, jobForm, lastJob>>

\* main.js:325 / :369: the settle transaction completes; the loop goes on to
\* POST the next item of its list, or the pass is over and ends with the
\* banner update.
DrainSettle ==
    \E d \in BagToSet(drains) :
        /\ d.pc = "settle"
        /\ store' = [store EXCEPT ![d.q] = settle(d.q, @, Head(d.pend).id)]
        /\ IF Len(d.pend) > 1
           THEN /\ drains' = Plus(Minus(drains, d),
                                  {[d EXCEPT !.pend = Tail(@), !.pc = "fetch"]})
                /\ UNCHANGED banners
           ELSE /\ drains' = Minus(drains, d)
                /\ banners' = notifyObservers(d.q, banners, TRUE)
        /\ UNCHANGED <<swVars, idb, displayed, uncaught, online, battery, saveData, batteryAware, nextId, accepted,
                       starting, timers, nChains, jobForm, lastJob>>

\* main.js:260-273  updatePendingSyncBanner: db.getPendingApplications()
\* resolves, and state.pendingCount and the banner text take its length.
BannerRead ==
    /\ banners > 0
    /\ banners' = banners - 1
    /\ displayed' = Len(getPendingApplications(store[APPS]))
    /\ UNCHANGED <<swVars, idb, uncaught, online, battery, saveData, batteryAware, store,
                   nextId, accepted, starting, drains, timers, nChains, jobForm,
                   lastJob>>

Next ==
    \/ OfflineEvent
    \/ OnlineEvent
    \/ BatteryChange
    \/ ConnectionChange
    \/ setSetting
    \/ SyncNowClick
    \/ JobSyncNowClick
    \/ RetryTimerFire
    \/ ApplicationFormSubmit
    \/ PostJobFormSubmit
    \/ PostJobFormResponse
    \/ DrainStart
    \/ DrainRead
    \/ DrainGate
    \/ DrainResponse
    \/ DrainSettle
    \/ BannerRead

Spec == Init /\ [][Next]_vars

\* The application queue alone: the platform and the handlers that touch the
\* queue. The two drains share no state (each reads and writes its own object
\* store, calls and timers), so the calls of trySyncJobSubmissions that the
\* 'online' handler makes are left out here; Spec has them.
OnlineEventApps == OnlineEventOn({APPS})

NextApps ==
    \/ OfflineEvent
    \/ OnlineEventApps
    \/ BatteryChange
    \/ ConnectionChange
    \/ SyncNowClick
    \/ RetryTimerFire
    \/ ApplicationFormSubmit
    \/ DrainStart
    \/ DrainRead
    \/ DrainGate
    \/ DrainResponse
    \/ DrainSettle
    \/ BannerRead

SpecApps == Init /\ [][NextApps]_vars

\* The job-submission queue alone, in the same way.
OnlineEventJobs == OnlineEventOn({JOBS})

NextJobs ==
    \/ OfflineEvent
    \/ OnlineEventJobs
    \/ JobSyncNowClick
    \/ RetryTimerFire
    \/ PostJobFormSubmit
    \/ PostJobFormResponse
    \/ DrainStart
    \/ DrainRead
    \/ DrainResponse
    \/ DrainSettle

SpecJobs == Init /\ [][NextJobs]_vars

\* ------------------------------------------------------- sw.js: fetch event
\* The origin publishes a new version of a resource.
OriginUpdate ==
    \E url \in Urls :
        /\ origin[url] < MaxVersion
        /\ origin' = [origin EXCEPT ![url] = @ + 1]
        /\ UNCHANGED <<pageVars, lifeVars, cache, fetches, puts, lastReply>>

\* sw.js:39-72, the synchronous part of the 'fetch' listener: a non-GET request
\* is left alone (sw.js:40); an API request starts fetch() (sw.js:47); any
\* other request starts caches.match() (sw.js:60).
SwFetchEvent ==
    \E url \in Urls, method \in Methods :
        /\ swState = "activated"
        /\ BagCardinality(fetches) + BagCardinality(puts) < MaxFetches
        /\ IF ~Intercepted(method)
           THEN /\ lastReply' = Reply(url, method, "passthrough", NoEntry)
                /\ UNCHANGED fetches
           ELSE /\ fetches' = Plus(fetches, {FetchEvent(url, method,
                                                   IF IsApi(url) THEN "net"
                                                   ELSE "match")})
                /\ UNCHANGED lastReply
        /\ UNCHANGED <<pageVars, lifeVars, origin, cache, puts>>

\* sw.js:47-53, network first: fetch() settles. A response (of any status) is
\* cloned, put in the cache without being awaited, and returned; a rejection
\* goes on to caches.match().
SwApiNetwork ==
    \E f \in BagToSet(fetches) : \E r \in NetOutcomes(f.url) :
        /\ IsApi(f.url) /\ f.pc = "net"
        /\ IF r # NetFail
           THEN /\ fetches' = Minus(fetches, f)
                /\ puts' = Plus(puts, {[url |-> f.url, resp |-> r]})
                /\ lastReply' = Reply(f.url, f.method, "network", r)
           ELSE /\ fetches' = Plus(Minus(fetches, f), {[f EXCEPT !.pc = "match"]})
                /\ UNCHANGED <<puts, lastReply>>
        /\ UNCHANGED <<pageVars, lifeVars, origin, cache>>

\* sw.js:53  .catch(() => caches.match(event.request)): the cached copy, or
\* undefined when there is none.
SwApiFallback ==
    \E f \in BagToSet(fetches) :
        /\ IsApi(f.url) /\ f.pc = "match"
        /\ fetches' = Minus(fetches, f)
        /\ lastReply' = Reply(f.url, f.method,
                              IF cache[f.url] = NoEntry THEN "fail" ELSE "cache",
                              cache[f.url])
        /\ UNCHANGED <<pageVars, lifeVars, origin, cache, puts>>

\* sw.js:60-69, stale while revalidate: caches.match() resolves, fetch() is
\* started, and `cachedResponse || fetchPromise` is returned: a cached copy
\* answers the request now.
SwStaticMatch ==
    \E f \in BagToSet(fetches) :
        /\ ~IsApi(f.url) /\ f.pc = "match"
        /\ LET c == cache[f.url] IN
           /\ fetches' = Plus(Minus(fetches, f),
                              {[f EXCEPT !.pc = "net", !.cached = c,
                                         !.replied = AnswerNow(c)]})
           /\ lastReply' = IF AnswerNow(c) THEN Reply(f.url, f.method, "cache", c)
                           ELSE lastReply
        /\ UNCHANGED <<pageVars, lifeVars, origin, cache, puts>>

\* sw.js:61-67: the fetch() of the static branch settles. A response with
\* status 200 is put in the cache; the response (of any status) is what
\* fetchPromise resolves to, and a rejection resolves it to cachedResponse.
SwStaticNetwork ==
    \E f \in BagToSet(fetches) : \E r \in NetOutcomes(f.url) :
        /\ ~IsApi(f.url) /\ f.pc = "net"
        /\ fetches' = Minus(fetches, f)
        /\ puts' = Plus(puts, Refresh(f.url, r))
        /\ lastReply' = IF f.replied THEN lastReply
                        ELSE FromNetwork(f.url, f.cached, r)
        /\ UNCHANGED <<pageVars, lifeVars, origin, cache>>

\* sw.js:50 / :64  caches.open(CACHE_NAME).then((cache) => cache.put(request, clone))
SwCachePut ==
    \E p \in BagToSet(puts) :
        /\ puts' = Minus(puts, p)
        /\ cache' = [cache EXCEPT ![p.url] = p.resp]
        /\ generations' = generations \cup {CACHE_NAME}
        /\ UNCHANGED <<pageVars, origin, fetches, lastReply, swState, doomed>>

\* The worker alone: connectivity changes, the origin, and fetch events.
OnlineEventSw == OnlineEventOn({})

NextSw ==
    \/ OfflineEvent
    \/ OnlineEventSw
    \/ OriginUpdate
    \/ SwFetchEvent
    \/ SwApiNetwork
    \/ SwApiFallback
    \/ SwStaticMatch
    \/ SwStaticNetwork
    \/ SwCachePut

SpecSw == Init /\ [][NextSw]_vars

\* ----------------------------------------------- sw.js: install and activate
\* sw.js:17-25  'install': caches.open(CACHE_NAME) creates the generation and
\* cache.addAll(STATIC_ASSETS) fills it, all or nothing; when a request of the
\* manifest fails the promise given to waitUntil() rejects and the worker is
\* discarded.
SwInstall ==
    /\ swState = "parsed"
    /\ generations' = generations \cup {CACHE_NAME}
    /\ \E ok \in {b \in BOOLEAN : b => online} :
          IF ok
          THEN /\ cache' = [u \in Urls |-> IF u \in STATIC_ASSETS
                                           THEN Response("200", origin[u])
                                           ELSE cache[u]]
               /\ swState' = "installed"
          ELSE /\ swState' = "redundant"
               /\ UNCHANGED cache
    /\ UNCHANGED <<pageVars, origin, fetches, puts, lastReply, doomed>>

\* sw.js:27-31  'activate' (at once, after skipWaiting()): caches.keys()
\* resolves and the keys other than CACHE_NAME are to be deleted.
SwActivate ==
    /\ swState = "installed"
    /\ swState' = "activating"
    /\ doomed' = Stale(generations)
    /\ UNCHANGED <<pageVars, origin, cache, fetches, puts, lastReply, generations>>

\* sw.js:31  one caches.delete(key) completes.
SwCacheDelete ==
    \E key \in doomed \cap generations :
        /\ swState = "activating"
        /\ generations' = generations \ {key}
        /\ UNCHANGED <<pageVars, origin, cache, fetches, puts, lastReply, swState,
                       doomed>>

\* sw.js:28-34  Promise.all(...) resolves: activation is complete, and the
\* worker starts to receive fetch events.
SwActivated ==
    /\ swState = "activating"
    /\ doomed \cap generations = {}
    /\ swState' = "activated"
    /\ UNCHANGED <<pageVars, origin, cache, fetches, puts, lastReply, generations,
                   doomed>>

\* A new version of the worker has been fetched and parsed; the caches of an
\* earlier version, or of an earlier failed install, may exist.
InitInstall ==
    /\ InitBase
    /\ battery = "ok"
    /\ idb = CurrentSchema
    /\ swState = "parsed"
    /\ generations \in SUBSET {OLD_CACHE_NAME, CACHE_NAME}
    /\ doomed = {}
    /\ cache = [u \in Urls |-> NoEntry]

NextLifecycle ==
    \/ SwInstall
    \/ SwActivate
    \/ SwCacheDelete
    \/ SwActivated
    \/ SwFetchEvent
    \/ SwApiNetwork
    \/ SwApiFallback
    \/ SwStaticMatch
    \/ SwStaticNetwork
    \/ SwCachePut

SpecLifecycle == InitInstall /\ [][NextLifecycle]_vars

\* ------------------------------------------------ db.js: opening the database
\* Everything but the database.
notIdb == <<online, battery, saveData, batteryAware, store, nextId, accepted,
            starting, drains, timers, nChains, jobForm, lastJob, displayed,
            banners, uncaught, swVars>>

\* The records an object store can hold: jobs and applications by their key,
\* the settings store the defaults or the defaults with one value changed.
StoreContents(name) ==
    IF name = "jobs" THEN SUBSET (1..MaxJobs)
    ELSE IF name = "applications" THEN SUBSET (1..MaxApps)
    ELSE {DEFAULT_SETTINGS,
          (DEFAULT_SETTINGS \ {[key |-> "batteryAware", value |-> "true"]})
              \cup {[key |-> "batteryAware", value |-> "false"]}}

\* The databases an earlier run of the application, at schema version
\* `version`, can have left behind.
LeftAt(version) ==
    LET Contents(name) == IF name \in SchemaAt(version).present
                          THEN StoreContents(name)
                          ELSE {{}}
    IN  {Database(version, SchemaAt(version).present,
                  [jobs |-> j, applications |-> a, settings |-> s]) :
            j \in Contents("jobs"), a \in Contents("applications"),
            s \in Contents("settings")}

\* db.js:13-53  init(): indexedDB.open(DB_NAME, DB_VERSION), the upgrade if
\* one is needed, then onsuccess.
DbInit ==
    /\ ~idb.open
    /\ idb' = [openDatabase(idb) EXCEPT !.open = TRUE, !.from = idb.version]
    /\ UNCHANGED notIdb

\* The page is closed: the connection goes with it.
DbClose ==
    /\ idb.open
    /\ idb' = [idb EXCEPT !.open = FALSE]
    /\ UNCHANGED notIdb

\* db.js:57-66, 75-84, 95-101, 114-119  a transaction on one object store
\* replaces its contents (put, add, delete).
DbWrite ==
    /\ idb.open
    /\ \E name \in idb.present : \E recs \in StoreContents(name) :
          /\ recs # idb.data[name]
          /\ idb' = [idb EXCEPT !.data[name] = recs]
    /\ UNCHANGED notIdb

InitSchema ==
    /\ InitBase
    /\ battery = "ok"
    /\ swState = "activated"
    /\ generations = {CACHE_NAME}
    /\ doomed = {}
    /\ cache = [u \in Urls |-> IF u \in STATIC_ASSETS THEN Response("200", 1)
                                ELSE NoEntry]
    /\ idb \in UNION {LeftAt(version) : version \in 0..DB_VERSION}

NextSchema ==
    \/ DbInit
    \/ DbClose
    \/ DbWrite

SpecSchema == InitSchema /\ [][NextSchema]_vars

\* The application queue with the settings store: db.setSetting() may change
\* the stored batteryAware at any time.
NextSettings ==
    \/ OfflineEvent
    \/ OnlineEventApps
    \/ BatteryChange
    \/ ConnectionChange
    \/ setSetting
    \/ SyncNowClick
    \/ RetryTimerFire
    \/ ApplicationFormSubmit
    \/ DrainStart
    \/ DrainRead
    \/ DrainGate
    \/ DrainResponse
    \/ DrainSettle
    \/ BannerRead

SpecSettings == Init /\ [][NextSettings]_vars

\* Delivery after reconnection, with no manual action and a server that accepts
\* every submission: valid applications are submitted, offline or online, the
\* client comes online and stays online, and every POST is answered 201. No
\* POST fails, so no retry is ever scheduled. Every await of a drain resolves
\* in the end (the store, the battery API and the server all answer), which is
\* the weak fairness of the drain's steps; the user and the network are under
\* no such obligation.
ValidSubmit ==
    /\ ApplicationFormSubmit
    /\ \A r \in store'[APPS] : r.valid

ServerAccepts ==
    /\ DrainResponse
    /\ \E d \in BagToSet(drains) :
           d.pc = "fetch" /\ drains' = Plus(Minus(drains, d), {[d EXCEPT !.pc = "settle"]})

NextDelivery ==
    \/ ValidSubmit
    \/ OnlineEventApps
    \/ DrainStart
    \/ DrainGate
    \/ ServerAccepts
    \/ DrainSettle
    \/ BannerRead

SpecDelivery ==
    /\ Init
    /\ [][NextDelivery]_vars
    /\ WF_vars(DrainStart)
    /\ WF_vars(DrainGate)
    /\ WF_vars(ServerAccepts)
    /\ WF_vars(DrainSettle)

\* Both queues together, the application queue stalled: every application is
\* one the server rejects, so each pass over it fails, and with the battery low
\* each pass is deferred. Items are enqueued while offline and the drains of
\* both queues are started by the 'online' handler.
StalledSubmit ==
    /\ ~online
    /\ nextId[APPS] <= MaxStalled
    /\ ApplicationFormSubmit
    /\ \A r \in store'[APPS] : ~r.valid

JobOfflineSubmit ==
    /\ ~online
    /\ PostJobFormSubmit
    /\ \A r \in store'[JOBS] : r.valid

NextBoth ==
    \/ OfflineEvent
    \/ OnlineEvent
    \/ RetryTimerFire
    \/ StalledSubmit
    \/ JobOfflineSubmit
    \/ DrainStart
    \/ DrainRead
    \/ DrainGate
    \/ DrainResponse
    \/ DrainSettle
    \/ BannerRead

SpecBoth == Init /\ [][NextBoth]_vars

\* Both queues together with every submission one the server accepts: items
\* are enqueued, the drains of both queues run and each POST is answered 201.
NextSettle ==
    \/ OfflineEvent
    \/ OnlineEvent
    \/ ValidSubmit
    \/ JobOfflineSubmit
    \/ DrainStart
    \/ DrainGate
    \/ ServerAccepts
    \/ DrainSettle
    \/ BannerRead

SpecSettle == Init /\ [][NextSettle]_vars

\* ================================================================ properties
Enqueued(q) == 1..(nextId[q] - 1)
InStore(q, id) == \E r \in store[q] : r.id = id
Accepted(q, id) == accepted[q][id] >= 1

\* A POST of record id of queue q is in flight from a drain.
Posting(q, id) ==
    \E d \in BagToSet(drains) : d.q = q /\ d.pc = "fetch" /\ Head(d.pend).id = id

\* The passes of queue q that are between reading the pending list and the end.
InPass(q) ==
    BagCardinality([d \in {e \in BagToSet(drains) :
                              e.q = q /\ e.pc \in {"gate", "fetch", "settle"}}
                      |-> drains[d]])

\* This step is the failure of the POST of call d: the call is gone.
Failed(d) == d.pc = "fetch" /\ drains' = Minus(drains, d)

\* This step issues the first POST of a pass of queue q: a call of q is newly
\* at its fetch, and it is not a call that came from settling an item.
FirstPost(q) ==
    /\ \E d \in BagToSet(drains') :
           /\ d.q = q /\ d.pc = "fetch"
           /\ CopiesIn(d, drains') > CopiesIn(d, drains)
    /\ \A e \in BagToSet(drains) :
           e.pc = "settle" => CopiesIn(e, drains') >= CopiesIn(e, drains)

\* C1: a submit that ran into a transient failure (5xx or transport error)
\* still ends with the record stored locally or accepted by the server, and
\* does not ask the user to submit again.
C1_TransientFailureKeepsRecord ==
    lastJob.resp \in {R500, NETERR} =>
        /\ lastJob.stored \/ lastJob.accepted
        /\ lastJob.toast # TryAgain

\* C2: every application ever enqueued is still in the local store or has been
\* accepted by the server at least once, and a step that removes an
\* application from the store is the settle of a drain whose POST of that
\* application returned 2xx.
C2_NoApplicationLost ==
    /\ [](\A id \in Enqueued(APPS) : InStore(APPS, id) \/ Accepted(APPS, id))
    /\ [][\A r \in store[APPS] \ store'[APPS] :
             /\ Accepted(APPS, r.id)
             /\ \E d \in BagToSet(drains) :
                    d.q = APPS /\ d.pc = "settle" /\ Head(d.pend).id = r.id]_vars

\* An application has been removed from the store while another one is still
\* pending.
C2_Witness ==
    /\ \E id \in Enqueued(APPS) : ~InStore(APPS, id)
    /\ \E id \in Enqueued(APPS) : InStore(APPS, id)

\* C3: no two drains of the same queue are in progress at the same time.
C3_OneDrainPerQueue == \A q \in Queues : InPass(q) <= 1

\* C4: every response reaches the client and nothing crashes (as in every
\* behaviour of this model), so each application is accepted at most once.
C4_AcceptedOnce == \A id \in 1..MaxApps : accepted[APPS][id] <= 1

JobDrainFifo ==
    \A b \in Enqueued(JOBS) : \A a \in 1..(b - 1) :
        Posting(JOBS, b) => Accepted(JOBS, a)

\* C6: every POST in flight carries a record that is already in its local
\* queue. The POST of the post-job form carries the form's fields, which have
\* no local record (id 0).
PostsInFlight ==
    {[q |-> d.q, id |-> Head(d.pend).id] :
        d \in {e \in BagToSet(drains) : e.pc = "fetch"}}
    \cup (IF jobForm.pc = "fetch" THEN {[q |-> JOBS, id |-> 0]} ELSE {})

C6_LocalCommitFirst == \A p \in PostsInFlight : p.id \in Enqueued(p.q)

\* C7 as stated: each of four consecutive failed passes (attempts 0, 1, 2, 3)
\* schedules a retry, at 1 s, 2 s, 4 s and 8 s.
C7_FourRetriesUpTo8s ==
    [][\A d \in BagToSet(drains) :
          Failed(d) =>
              \E t \in BagToSet(timers') :
                  /\ timers' = Plus(timers, {t})
                  /\ t.q = d.q
                  /\ t.hist = SubSeq(<<1000, 2000, 4000, 8000>>, 1, d.rc + 1)]_vars

\* C7 amended: the failed passes at attempts 0, 1 and 2 schedule one retry
\* each, at 1 s, 2 s and 4 s in that order; the failed pass at attempt 3
\* schedules nothing, so no retry at 8 s exists.
C7_ThreeRetriesUpTo4s ==
    /\ [](\A t \in BagToSet(timers) :
             /\ t.rc \in 1..3
             /\ t.delay = t.hist[t.rc]
             /\ t.hist = SubSeq(<<1000, 2000, 4000>>, 1, t.rc))
    /\ [][\A d \in BagToSet(drains) :
             Failed(d) =>
                 IF d.rc < 3
                 THEN \E t \in BagToSet(timers') :
                          /\ timers' = Plus(timers, {t})
                          /\ t.q = d.q /\ t.rc = d.rc + 1
                          /\ t.hist = SubSeq(<<1000, 2000, 4000>>, 1, d.rc + 1)
                 ELSE timers' = timers]_vars

\* The fourth pass of a chain has been submitted after retries at 1 s, 2 s
\* and 4 s, and the client is offline, so that pass fails.
C7_Witness ==
    \E d \in BagToSet(drains) :
        /\ d.q = APPS /\ d.rc = 3 /\ d.pc = "fetch"
        /\ d.hist = <<1000, 2000, 4000>>
        /\ ~online

\* C8: a chain makes at most four passes (attempts 0..3), one at a time: each
\* retry timer that fires makes at most one call, at the timer's attempt; when
\* the pass at attempt 3 fails the store is as it was and no timer is added;
\* and a call made by a trigger is at attempt 0.
C8_BoundedRetry ==
    /\ [](/\ \A d \in BagToSet(drains) : d.rc \in 0..3 /\ Len(d.hist) = d.rc
          /\ \A t \in BagToSet(timers) : t.rc \in 1..3 /\ Len(t.hist) = t.rc)
    /\ [][/\ \A d \in BagToSet(drains) :
                (Failed(d) /\ d.rc = 3) => timers' = timers /\ store' = store
          /\ \A t \in BagToSet(timers) :
                timers' = Minus(timers, t) =>
                    \/ drains' = drains
                    \/ drains' = Plus(drains, {Drain(t.q, t.rc, t.hist)})
          /\ \A q \in Queues :
                starting'[q] < starting[q] =>
                    \A d \in BagToSet(drains') :
                        CopiesIn(d, drains') > CopiesIn(d, drains) =>
                            d.q = q /\ d.rc = 0 /\ d.hist = <<>>]_vars

\* A chain is in its last pass while another chain of the queue, started by a
\* later trigger, is in a pass at attempt 0.
C8_Witness ==
    \E d, e \in BagToSet(drains) :
        /\ d.q = APPS /\ e.q = APPS
        /\ d.rc = 3 /\ d.pc = "fetch"
        /\ e.rc = 0 /\ e.pc = "fetch"

\* C9: no retry is scheduled for a pass that ended in a 4xx.
C9_RejectedNotRetried ==
    \A t \in BagToSet(timers) : t.cause # "RemoteRejected"

\* C10: with batteryAware set and the battery low, no drain of either queue
\* issues a request.
C10_ResourceGate ==
    [][(batteryAware /\ battery = "low") =>
           \A q \in Queues : ~FirstPost(q)]_vars

\* This step is the gate of call d (main.js:294-303): the call leaves the gate.
GateStep(d) == d.pc = "gate" /\ CopiesIn(d, drains') < CopiesIn(d, drains)

\* C11: a drain is deferred at its gate exactly when the stored batteryAware
\* setting is true and the battery is low, or data saver is active.
C11_DeferredIffSettingAndSignals ==
    [][\A d \in BagToSet(drains) :
          GateStep(d) =>
              (drains' = Minus(drains, d)
                  <=> ((batteryAware /\ battery = "low") \/ saveData))]_vars

\* C12: a drain invoked while the client is offline (by a trigger or by a
\* retry timer firing) is a no-op: no call goes on to read the queue, so no
\* request is issued; the store and the server are as they were; and no timer
\* is added.
C12_OfflineDrainIsNoOp ==
    [][~online' =>
          /\ \A q \in Queues : starting'[q] <= starting[q]
          /\ \A d \in BagToSet(drains') :
                d.pc = "read" => CopiesIn(d, drains') <= CopiesIn(d, drains)
          /\ \A t \in BagToSet(timers) :
                CopiesIn(t, timers') < CopiesIn(t, timers) =>
                    /\ timers' = Minus(timers, t)
                    /\ drains' = drains
                    /\ store' = store
                    /\ accepted' = accepted]_vars

\* The client is offline with a pending application, and all that is left of
\* its drain chain is a retry timer, which will fire offline.
C12_Witness ==
    /\ ~online
    /\ timers # EmptyBag
    /\ drains = EmptyBag
    /\ starting[APPS] = 0
    /\ store[APPS] # {}

\* C13: with the battery not low and data saver off, once the client is
\* online every application waiting in the queue is eventually accepted by
\* the server and removed from the queue, and the pending list eventually
\* becomes empty (SpecDelivery: no manual trigger, the server accepts).
C13_EventualDelivery ==
    /\ \A id \in 1..MaxApps :
          (battery = "ok" /\ ~saveData /\ online /\ InStore(APPS, id))
              ~> (~InStore(APPS, id) /\ Accepted(APPS, id))
    /\ (battery = "ok" /\ ~saveData /\ online)
          ~> (getPendingApplications(store[APPS]) = <<>>)

\* Two applications were submitted offline, no drain was started before the
\* client came online, and then both were accepted and the queue is empty.
C13_Witness ==
    /\ online /\ battery = "ok"
    /\ nChains[APPS] = 1
    /\ nextId[APPS] = 3
    /\ store[APPS] = {}
    /\ Accepted(APPS, 1) /\ Accepted(APPS, 2)
    /\ drains = EmptyBag /\ starting[APPS] = 0

\* C14 as stated: when a POST of a pass fails, the pass is over (no later item
\* of its list is submitted), the store is as it was, so the pending items and
\* their order are unchanged, and exactly one retry is scheduled.
C14_StopAndOneRetry ==
    [][\A d \in BagToSet(drains) :
          Failed(d) =>
              /\ store' = store /\ accepted' = accepted
              /\ getPending(d.q, store'[d.q]) = getPending(d.q, store[d.q])
              /\ \E t \in BagToSet(timers') :
                    /\ timers' = Plus(timers, {t})
                    /\ t.q = d.q /\ t.rc = d.rc + 1]_vars

\* C14 amended: the same, with exactly one retry scheduled when the failed
\* pass is at attempt 0, 1 or 2 (the first one 1 s later) and none when it is
\* at attempt 3.
C14_StopAndRetryWithinBudget ==
    [][\A d \in BagToSet(drains) :
          Failed(d) =>
              /\ store' = store /\ accepted' = accepted
              /\ getPending(d.q, store'[d.q]) = getPending(d.q, store[d.q])
              /\ IF d.rc < 3
                 THEN \E t \in BagToSet(timers') :
                          /\ timers' = Plus(timers, {t})
                          /\ t.q = d.q /\ t.rc = d.rc + 1
                          /\ d.rc = 0 => t.delay = 1000
                 ELSE timers' = timers]_vars

\* Scenario 2: the first pass failed on the first of two applications without
\* submitting the second; both are still pending, and the retry scheduled 1 s
\* later has read both and is submitting the first.
C14_Witness ==
    /\ accepted[APPS] = [i \in 1..MaxApps |-> 0]
    /\ Len(getPendingApplications(store[APPS])) = 2
    /\ \E d \in BagToSet(drains) :
           /\ d.q = APPS /\ d.rc = 1 /\ d.hist = <<1000>> /\ d.pc = "fetch"
           /\ Len(d.pend) = 2 /\ d.pend[1].id = 1 /\ d.pend[2].id = 2

\* The calls (or timers) of bag B that belong to queue q.
OfQueue(B, q) == [e \in {x \in BagToSet(B) : x.q = q} |-> B[e]]

\* All that a drain of queue q reads or writes.
QueueView(q) ==
    <<store[q], nextId[q], accepted[q], starting[q], nChains[q],
      OfQueue(drains, q), OfQueue(timers, q)>>

\* This step is the next step of call d.
StepOf(d) ==
    /\ DrainRead \/ DrainGate \/ DrainResponse \/ DrainSettle
    /\ CopiesIn(d, drains') < CopiesIn(d, drains)

Pending == getPendingApplications(store[APPS])

\* This step is the settle of call d (main.js:322): the call leaves its await.
SettleStep(d) == d.pc = "settle" /\ CopiesIn(d, drains') < CopiesIn(d, drains)

\* C16: getPendingApplications returns exactly the applications enqueued and
\* not settled, oldest first, with unique and strictly increasing ids, and as
\* many of them as enqueue calls minus distinct settled items. Step by step:
\* an enqueue appends one record with a fresh, larger id; a settle of id
\* removes that record and no other (and nothing when it is already gone);
\* every other step leaves the list as it was.
C16_PendingIsEnqueuedMinusSettled ==
    /\ [](/\ \A i, j \in 1..Len(Pending) : i < j => Pending[i].id < Pending[j].id
          /\ {Pending[i].id : i \in 1..Len(Pending)}
                = {id \in Enqueued(APPS) : InStore(APPS, id)}
          /\ Len(Pending)
                = (nextId[APPS] - 1)
                    - Cardinality({id \in Enqueued(APPS) : ~InStore(APPS, id)}))
    /\ [][IF nextId'[APPS] # nextId[APPS]
          THEN /\ Len(Pending') = Len(Pending) + 1
               /\ SubSeq(Pending', 1, Len(Pending)) = Pending
               /\ Pending'[Len(Pending')].id = nextId[APPS]
               /\ \A i \in 1..Len(Pending) : Pending[i].id < nextId[APPS]
          ELSE IF \E d \in BagToSet(drains) : SettleStep(d)
          THEN \E d \in BagToSet(drains) :
                  /\ SettleStep(d)
                  /\ Pending' = SelectSeq(Pending, LAMBDA r : r.id # Head(d.pend).id)
          ELSE Pending' = Pending]_vars

\* Two applications were enqueued, the first has been settled, and the
\* pending list is the second alone.
C16_Witness ==
    /\ nextId[APPS] = 3
    /\ Len(Pending) = 1
    /\ Pending[1].id = 2
    /\ Accepted(APPS, 1)

\* C17: markAsSynced is idempotent. Settling an id a second time, or an id
\* that is not in the store, leaves the store as the first settle left it:
\* as a law of the operation on every reachable store, and on every settle
\* step a drain takes for an application that is no longer stored.
C17_SettleIdempotent ==
    /\ [](\A id \in 1..MaxApps :
             /\ markAsSynced(markAsSynced(store[APPS], id), id)
                    = markAsSynced(store[APPS], id)
             /\ ~InStore(APPS, id) => markAsSynced(store[APPS], id) = store[APPS])
    /\ [][\A d \in BagToSet(drains) :
             (SettleStep(d) /\ d.q = APPS /\ ~InStore(APPS, Head(d.pend).id))
                 => store' = store]_vars

\* A drain is about to settle an application that another drain has settled
\* already, while a later application is still in the store.
C17_Witness ==
    \E d \in BagToSet(drains) :
        /\ d.q = APPS /\ d.pc = "settle"
        /\ ~InStore(APPS, Head(d.pend).id)
        /\ store[APPS] # {}

\* This step is a step of fetch event f.
FetchStep(f) == CopiesIn(f, fetches') < CopiesIn(f, fetches)

\* C18: network first for GETs of the data API. The handling of such a GET
\* starts with the network attempt; when the network answers 200 that
\* response is the reply and a put of a copy of it is started, and only such a
\* put changes the cache entry; when the attempt fails, nothing is answered
\* or written at that step, and the reply is then the cached copy if there is
\* one and a failure otherwise.
C18_ApiNetworkFirst ==
    [][/\ \A f \in BagToSet(fetches') :
             (f.url = API_URL /\ CopiesIn(f, fetches') > CopiesIn(f, fetches))
                 => \/ f.pc = "net"
                    \/ /\ f.pc = "match"
                       /\ [f EXCEPT !.pc = "net"] \in BagToSet(fetches)
                       /\ puts' = puts /\ lastReply' = lastReply /\ cache' = cache
       /\ \A f \in BagToSet(fetches) :
             (f.url = API_URL /\ FetchStep(f)) =>
                 /\ f.pc = "net" /\ fetches' = Minus(fetches, f) =>
                       /\ lastReply'.url = f.url /\ lastReply'.from = "network"
                       /\ lastReply'.resp.status = "200" =>
                             /\ lastReply'.resp.body = origin[f.url]
                             /\ puts' = Plus(puts, {[url |-> f.url,
                                                     resp |-> lastReply'.resp]})
                 /\ f.pc = "match" =>
                       /\ cache' = cache /\ puts' = puts
                       /\ lastReply' =
                             Reply(f.url, "GET",
                                   IF cache[f.url] = NoEntry THEN "fail" ELSE "cache",
                                   cache[f.url])
       /\ cache'[API_URL] # cache[API_URL] =>
             \E p \in BagToSet(puts) :
                 p.url = API_URL /\ cache'[API_URL] = p.resp /\ puts' = Minus(puts, p)]_vars

\* The page is offline and its GET of the data API was answered with the
\* copy that an earlier, successful GET had put in the cache.
C18_Witness ==
    /\ ~online
    /\ lastReply = Reply(API_URL, "GET", "cache", cache[API_URL])
    /\ cache[API_URL].status = "200"

\* C19: static assets while the network fails (the client is offline, every
\* fetch() rejects). A read that finds a cached copy is answered with exactly
\* that copy, and no step of the read writes the cache or starts a put; a read
\* that found no entry fails.
C19_StaticOffline ==
    [][~online =>
          \A f \in BagToSet(fetches) :
              (f.url # API_URL /\ FetchStep(f)) =>
                  /\ cache' = cache /\ puts' = puts
                  /\ (f.pc = "match" /\ cache[f.url] # NoEntry) =>
                        lastReply' = Reply(f.url, "GET", "cache", cache[f.url])
                  /\ (f.pc = "match" /\ cache[f.url] = NoEntry) =>
                        lastReply' = lastReply
                  /\ (f.pc = "net" /\ f.cached = NoEntry) =>
                        lastReply' = Reply(f.url, "GET", "fail", NoEntry)
                  /\ (f.pc = "net" /\ f.cached # NoEntry) =>
                        lastReply' = lastReply]_vars

\* Offline, a read of an asset that is not in the install manifest was
\* answered from the cache, where an earlier read had put it.
C19_Witness ==
    /\ ~online
    /\ lastReply = Reply(ICON_URL, "GET", "cache", cache[ICON_URL])
    /\ cache[ICON_URL] # NoEntry
    /\ fetches = EmptyBag

\* C20: stale while revalidate for static assets. A read that finds a cache
\* entry is answered with it at once, before its fetch() has settled, and is
\* not answered again; a read that finds none is answered when its fetch()
\* settles, with the network's response, or fails when the fetch rejects. The
\* refresh starts a put only for a response with status 200, carrying the
\* origin's body, so that the cache entry of a static asset is only ever
\* overwritten by a 200 response.
C20_StaleWhileRevalidate ==
    [][/\ \A f \in BagToSet(fetches) :
             (f.url # API_URL /\ FetchStep(f)) =>
                 /\ f.pc = "match" =>
                       /\ puts' = puts /\ cache' = cache
                       /\ [f EXCEPT !.pc = "net", !.cached = cache[f.url],
                                    !.replied = (cache[f.url] # NoEntry)]
                              \in BagToSet(fetches')
                       /\ lastReply' = IF cache[f.url] # NoEntry
                                       THEN Reply(f.url, "GET", "cache", cache[f.url])
                                       ELSE lastReply
                 /\ f.pc = "net" =>
                       /\ cache' = cache
                       /\ f.replied <=> f.cached # NoEntry
                       /\ f.replied => lastReply' = lastReply
                       /\ ~f.replied =>
                             /\ lastReply'.url = f.url
                             /\ lastReply'.from \in {"network", "fail"}
                             /\ lastReply'.from = "fail" => puts' = puts
                             /\ lastReply'.from = "network" =>
                                   lastReply'.resp.status \in {"200", "500"}
                       /\ \/ puts' = puts
                          \/ puts' = Plus(puts, {[url |-> f.url,
                                                  resp |-> Response("200", origin[f.url])]})
       /\ \A u \in Urls \ {API_URL} :
             cache'[u] # cache[u] => cache'[u].status = "200"]_vars

\* A read of /index.html was answered with the cached version 1 without
\* waiting, and the refresh has since replaced the cache entry by version 2.
C20_Witness ==
    /\ lastReply = Reply(INDEX_URL, "GET", "cache", Response("200", 1))
    /\ cache[INDEX_URL] = Response("200", 2)
    /\ fetches = EmptyBag /\ puts = EmptyBag

\* C21: requests that are not GETs are never intercepted. The worker handles
\* (reads or writes the cache for, and answers) GET requests only; a request
\* of another method is passed through, and the step that sees it leaves the
\* cache, the puts in progress and the events in progress as they were.
C21_NonGetPassedThrough ==
    /\ [](/\ \A f \in BagToSet(fetches) : f.method = "GET"
          /\ lastReply.from \in {"network", "cache", "fail"} => lastReply.method = "GET"
          /\ lastReply.method = "POST" => lastReply.from = "passthrough")
    /\ [][(lastReply' # lastReply /\ lastReply'.method # "GET") =>
             cache' = cache /\ puts' = puts /\ fetches' = fetches]_vars

\* A POST to the data API went through untouched while a GET was being
\* handled and the cache held a copy for that URL.
C21_Witness ==
    /\ lastReply = Reply(API_URL, "POST", "passthrough", NoEntry)
    /\ cache[API_URL] # NoEntry
    /\ fetches # EmptyBag

\* C22: once activation is complete the current cache generation is the only
\* one that exists, whatever fetch events follow.
C22_OneGeneration ==
    swState = "activated" => generations = {CACHE_NAME}

\* Activation deleted the generation of the earlier version, and since then
\* a fetch event has written the current one.
C22_Witness ==
    /\ swState = "activated"
    /\ doomed = {OLD_CACHE_NAME}
    /\ generations = {CACHE_NAME}
    /\ cache[API_URL] # NoEntry

\* C23: opening the database from schema version 0, 1 or 2 leaves it at the
\* current version with the three object stores; the stores that existed keep
\* their records, the stores it creates are empty except that 'settings' gets
\* the defaults, and an up-to-date database is left as it was.
C23_MigrationAdditive ==
    [][(~idb.open /\ idb'.open) =>
          /\ idb.version \in 0..DB_VERSION
          /\ idb'.version = DB_VERSION
          /\ idb'.present = StoreNames
          /\ \A n \in idb.present : idb'.data[n] = idb.data[n]
          /\ \A n \in StoreNames \ idb.present :
                idb'.data[n] = IF n = "settings" THEN DEFAULT_SETTINGS ELSE {}
          /\ idb.version = DB_VERSION =>
                idb' = [idb EXCEPT !.open = TRUE, !.from = DB_VERSION]]_vars

\* A database left at version 1 with a job and an application stored has
\* been opened: the upgrade to version 2 ran over existing records.
C23_Witness ==
    /\ idb.open
    /\ idb.from = 1
    /\ idb.version = DB_VERSION
    /\ idb.data["jobs"] = {1}
    /\ idb.data["applications"] = {1}
    /\ idb.data["settings"] = DEFAULT_SETTINGS

\* C24: on the online path of the post-job form nothing is queued before the
\* server answers, and the step that receives a 400 leaves the job-submission
\* queue, its pending list, the retry timers and the drains as they were.
C24_RejectedPostLeavesQueue ==
    /\ [][(jobForm.pc = "idle" /\ jobForm'.pc = "fetch") =>
             store' = store /\ timers' = timers]_vars
    /\ [][(jobForm.pc = "fetch" /\ jobForm'.pc = "idle" /\ lastJob'.resp = R400) =>
             /\ store' = store
             /\ nextId' = nextId
             /\ getPendingJobSubmissions(store'[JOBS]) =
                    getPendingJobSubmissions(store[JOBS])
             /\ timers' = timers
             /\ drains' = drains
             /\ starting' = starting
             /\ nChains' = nChains
             /\ ~lastJob'.stored]_vars

\* A job posted online was answered 400 while another job was pending in the
\* queue: the queue still holds just that one.
C24_Witness ==
    /\ lastJob.resp = R400
    /\ jobForm.pc = "idle"
    /\ Len(getPendingJobSubmissions(store[JOBS])) = 1
    /\ nextId[JOBS] = 2

\* The applications of the store whose synced flag is false.
Unsynced == {r \in store[APPS] : ~r.synced}

\* The passes over the application queue that have POSTed an item and have
\* not ended.
Submitting ==
    BagCardinality([d \in {e \in BagToSet(drains) :
                              e.q = APPS /\ e.pc \in {"fetch", "settle"}}
                      |-> drains[d]])

\* C25: the pending list is exactly the applications with synced = false;
\* every pass over the application queue that POSTed an item ends, after a
\* success as after a failure, with a banner update; and when no such pass
\* and no banner update is in progress the displayed count is the number of
\* unsynced applications in the store.
C25_PendingCountConsistent ==
    /\ [](/\ Len(Pending) = Cardinality(Unsynced)
          /\ \A r \in store[APPS] : (\E i \in 1..Len(Pending) : Pending[i] = r) <=> ~r.synced
          /\ (Submitting = 0 /\ banners = 0) => displayed = Cardinality(Unsynced))
    /\ [][Submitting' < Submitting => banners' = banners + 1]_vars

\* Two applications were queued, a pass settled the first and failed on the
\* second, and the banner updates are done: the banner shows the one left.
C25_Witness ==
    /\ banners = 0
    /\ Submitting = 0
    /\ displayed = 1
    /\ nextId[APPS] = 3
    /\ Cardinality(Unsynced) = 1
    /\ timers # EmptyBag

C27_QueuesSettleDifferently ==
    /\ [][\A d \in BagToSet(drains) : SettleStep(d) =>
             LET id == Head(d.pend).id IN
             IF d.q = APPS
             THEN /\ \A r \in store'[APPS] : r.id # id
                  /\ \A i \in 1..Len(getAll(store'[APPS])) : getAll(store'[APPS])[i].id # id
             ELSE /\ \E r \in store'[JOBS] : r.id = id /\ r.synced
                  /\ \A r \in store'[JOBS] : r.id = id => r.synced
                  /\ \A i \in 1..Len(getPendingJobSubmissions(store'[JOBS])) :
                         getPendingJobSubmissions(store'[JOBS])[i].id # id
                  /\ \E i \in 1..Len(getAllJobSubmissions(store'[JOBS])) :
                         /\ getAllJobSubmissions(store'[JOBS])[i].id = id
                         /\ getAllJobSubmissions(store'[JOBS])[i].synced]_vars
    /\ [][\A r \in store[JOBS] : r.synced => r \in store'[JOBS]]_vars

\* One application and one job submission were queued and both were settled:
\* the application store is empty, the job submission is listed as synced.
C27_Witness ==
    /\ nextId[APPS] = 2
    /\ accepted[APPS][1] > 0
    /\ store[APPS] = {}
    /\ nextId[JOBS] = 2
    /\ accepted[JOBS][1] > 0
    /\ getPendingJobSubmissions(store[JOBS]) = <<>>
    /\ Len(getAllJobSubmissions(store[JOBS])) = 1
    /\ getAllJobSubmissions(store[JOBS])[1].synced
    /\ drains = EmptyBag

\* C28: a cached successful copy of a data-API resource is never replaced by
\* an error response, the entry is only ever written with a successful (200)
\* response, and a data-API read answered from the cache gets a successful
\* response.
C28_ApiCacheOnlyOnSuccess ==
    /\ [][(cache[API_URL].status = "200" /\ cache'[API_URL] # cache[API_URL])
             => cache'[API_URL].status = "200"]_vars
    /\ [][cache'[API_URL] # cache[API_URL] => cache'[API_URL].status = "200"]_vars
    /\ []((lastReply.url = API_URL /\ lastReply.from = "cache")
              => lastReply.resp.status = "200")

====
